---- MODULE Spec2Model ----
(***************************************************************************)
(* Model of the rattlesnake lexer (src/src/lexer.rs).                      *)
(*                                                                         *)
(* The input is a sequence of characters, each a one-character string.     *)
(* One action is one iteration of the main loop of Lexer::lex (one arm of  *)
(* its match), with the inner loops (lex_num, lex_string_literal, the      *)
(* comment loop, the identifier loop) computed by recursive operators.     *)
(* The last action is the code after the loop: the EOF token and Ok.       *)
(***************************************************************************)
EXTENDS Integers, Sequences, FiniteSets, TLC

VARIABLES input, location, current_index, seen_newline, tokens, result,
          looked, emitted_at, last_arm, arm_start, iterations, first_run,
          call, ret, overflow_checks

\* the variables of the lexer, of the second run over its output, and of the
\* operators of Value (src/src/value.rs)
lexer_vars == <<input, location, current_index, seen_newline, tokens, result,
                looked, emitted_at, last_arm, arm_start, iterations>>
value_vars == <<call, ret, overflow_checks>>

vars == <<lexer_vars, first_run, value_vars>>

(***************************************************************************)
(* Characters                                                              *)
(***************************************************************************)
\* a character of the source that takes two bytes in UTF-8 (U+00E9)
EAcute == "U+00E9"

\* a white space character that takes three bytes in UTF-8 (U+3000)
IdeoSpace == "U+3000"

\* Option<char>::None
None == "<none>"

Newline == "\n"
Quote == "\""

\* char::is_whitespace, for the characters of the model
Whitespace == {" ", Newline, "\t", "\r", IdeoSpace}

DecDigits == {"0", "1", "2", "3", "4", "5", "6", "7", "8", "9"}
BinDigits == {"0", "1"}
OctDigits == {"0", "1", "2", "3", "4", "5", "6", "7"}
HexLetters == {"a", "b", "c", "d", "e", "f"}

LowerLetters == {"a", "b", "c", "d", "e", "f", "g", "h", "i", "j", "k", "l",
                 "m", "n", "o", "p", "q", "r", "s", "t", "u", "v", "w", "x",
                 "y", "z"}
UpperLetters == {"A", "B", "C", "D", "E", "F", "G", "H", "I", "J", "K", "L",
                 "M", "N", "O", "P", "Q", "R", "S", "T", "U", "V", "W", "X",
                 "Y", "Z"}

LowerOf == [c \in UpperLetters |->
              CASE c = "A" -> "a" [] c = "B" -> "b" [] c = "C" -> "c"
                [] c = "D" -> "d" [] c = "E" -> "e" [] c = "F" -> "f"
                [] c = "G" -> "g" [] c = "H" -> "h" [] c = "I" -> "i"
                [] c = "J" -> "j" [] c = "K" -> "k" [] c = "L" -> "l"
                [] c = "M" -> "m" [] c = "N" -> "n" [] c = "O" -> "o"
                [] c = "P" -> "p" [] c = "Q" -> "q" [] c = "R" -> "r"
                [] c = "S" -> "s" [] c = "T" -> "t" [] c = "U" -> "u"
                [] c = "V" -> "v" [] c = "W" -> "w" [] c = "X" -> "x"
                [] c = "Y" -> "y" [] c = "Z" -> "z"]

\* char::to_ascii_lowercase
to_ascii_lowercase(c) == IF c \in UpperLetters THEN LowerOf[c] ELSE c

\* number of bytes of the UTF-8 encoding of a character
len_utf8(c) == CASE c = EAcute -> 2 [] c = IdeoSpace -> 3 [] OTHER -> 1

(***************************************************************************)
(* Bounds and inputs                                                       *)
(***************************************************************************)
MaxLen == 3
MaxLong == 4

Alphabet == {Quote, Newline, " ", "0", "1", "8", "b", "o", "x", "F", "_",
             ".", "=", ">", "<", "!", "/", "+", EAcute, IdeoSpace}

AlphabetLong == {Quote, Newline, " ", "0", "1", "b", ".", "=", ">", "/", "+",
                 EAcute, IdeoSpace}

Strings(A, n) == UNION {[1..k -> A] : k \in 0..n}

(***************************************************************************)
(* Token (crate::token)                                                    *)
(***************************************************************************)
\* Token::new: newline_before starts false and is set by Lexer::push
Token_new(kind, loc, text) ==
    [kind |-> kind, location |-> loc, text |-> text, newline_before |-> FALSE]

\* Token::from_str: the keyword/identifier classifier; every text of the
\* model's alphabet is an identifier
Token_from_str(ident, loc) == Token_new("Identifier", loc, ident)

\* impl From<Base> for TokenKind
BaseKind(base) ==
    CASE base = "Bin" -> "IntegerLiteralBin"
      [] base = "Oct" -> "IntegerLiteralOct"
      [] base = "Dec" -> "IntegerLiteralDec"
      [] base = "Hex" -> "IntegerLiteralHex"

(***************************************************************************)
(* The lexer's fields as one record m, threaded through the helpers:       *)
(*   location, current_index, seen_newline   the fields of Lexer           *)
(*   tokens                                  the local vector of lex       *)
(*   looked      history: the highest character index read by cur/peek     *)
(*   emitted_at  history: current_index at each Lexer::push                *)
(* last_arm and arm_start are history too: the arm of the match that ran   *)
(* last and the value of current_index when it started; iterations counts  *)
(* the iterations of the main loop of lex.                                 *)
(***************************************************************************)
Max(a, b) == IF a >= b THEN a ELSE b

Self == [location |-> location, current_index |-> current_index,
         seen_newline |-> seen_newline, tokens |-> tokens,
         looked |-> looked, emitted_at |-> emitted_at]

\* Lexer::cur: the character at character index current_index
cur(m) == IF m.current_index < Len(input) THEN input[m.current_index + 1]
          ELSE None

\* Lexer::peek
peek(m, offset) ==
    IF m.current_index + offset < Len(input)
    THEN input[m.current_index + offset + 1] ELSE None

\* history: record that the character at current_index + offset was read
Look(m, offset) ==
    [m EXCEPT !.looked = Max(@, m.current_index + offset)]

\* increment without the reset of the column at a newline
increment_NoColumnReset(m) ==
    LET c == cur(m) IN
    CASE c = Newline ->
           [m EXCEPT !.location = [line |-> @.line + 1,
                                   column |-> @.column + 1],
                     !.current_index = @ + 1,
                     !.seen_newline = TRUE,
                     !.looked = Max(@, m.current_index)]
      [] c = None -> [m EXCEPT !.looked = Max(@, m.current_index)]
      [] OTHER ->
           [m EXCEPT !.current_index = @ + 1,
                     !.location = [line |-> @.line, column |-> @.column + 1],
                     !.looked = Max(@, m.current_index)]

\* Lexer::increment
increment(m) ==
    LET c == cur(m) IN
    CASE c = Newline ->
           [m EXCEPT !.location = [line |-> @.line + 1, column |-> 1],
                     !.current_index = @ + 1,
                     !.seen_newline = TRUE,
                     !.looked = Max(@, m.current_index)]
      [] c = None -> [m EXCEPT !.looked = Max(@, m.current_index)]
      [] OTHER ->
           [m EXCEPT !.current_index = @ + 1,
                     !.location = [line |-> @.line, column |-> @.column + 1],
                     !.looked = Max(@, m.current_index)]

\* push without the reset of seen_newline
push_KeepsFlag(m, token) ==
    [m EXCEPT !.tokens = Append(@, [token EXCEPT
                                      !.newline_before = m.seen_newline]),
              !.emitted_at = Append(@, m.current_index)]

\* Lexer::push
push(m, token) ==
    [m EXCEPT !.tokens = Append(@, [token EXCEPT
                                      !.newline_before = m.seen_newline]),
              !.seen_newline = FALSE,
              !.emitted_at = Append(@, m.current_index)]

(***************************************************************************)
(* Byte offsets: self.input[a..b] indexes the UTF-8 bytes of the input,    *)
(* while cur and peek count characters.                                    *)
(***************************************************************************)
RECURSIVE ByteOffset(_)
\* the byte offset at which the character of index k (from 0) begins
ByteOffset(k) == IF k = 0 THEN 0
                 ELSE ByteOffset(k - 1) + len_utf8(input[k])

\* str::is_char_boundary
is_char_boundary(b) == \E k \in 0..Len(input) : ByteOffset(k) = b

\* the index of the character that begins at byte offset b
CharAt(b) == CHOOSE k \in 0..Len(input) : ByteOffset(k) = b

\* self.input[a..b]: panics unless a <= b <= len and both are boundaries
str_index(a, b) ==
    IF a <= b /\ b <= ByteOffset(Len(input))
       /\ is_char_boundary(a) /\ is_char_boundary(b)
    THEN [panic |-> FALSE, text |-> SubSeq(input, CharAt(a) + 1, CharAt(b))]
    ELSE [panic |-> TRUE, text |-> <<>>]

RECURSIVE increment_n(_, _)
\* for _ in 0..len { self.increment() }
increment_n(m, len) == IF len = 0 THEN m
                       ELSE increment_n(increment(m), len - 1)

\* Lexer::push_simple
push_simple(m, kind, len) ==
    LET text == str_index(m.current_index, m.current_index + len) IN
    IF text.panic THEN [m |-> m, panic |-> TRUE]
    ELSE [m |-> increment_n(push(m, Token_new(kind, m.location, text.text)),
                            len),
          panic |-> FALSE]

\* the digits the match of lex_num accepts for a base
BaseDigits(base) ==
    CASE base = "Bin" -> BinDigits
      [] base = "Oct" -> OctDigits
      [] base = "Dec" -> DecDigits
      [] base = "Hex" -> DecDigits \cup HexLetters

RECURSIVE lex_num_NoBaseCheck(_, _, _)
\* lex_num without the arm of lines 228-230: an invalid digit ends the scan
lex_num_NoBaseCheck(m, num, base) ==
    LET m1 == Look(m, 0)
        c0 == cur(m)
        c == to_ascii_lowercase(c0)
    IN  IF c0 = None THEN [m |-> m1, num |-> num, err |-> FALSE]
        ELSE IF c \in BaseDigits(base)
        THEN lex_num_NoBaseCheck(increment(m1), Append(num, c), base)
        ELSE IF c = "_" THEN lex_num_NoBaseCheck(increment(m1), num, base)
        ELSE [m |-> m1, num |-> num, err |-> FALSE]

RECURSIVE lex_num(_, _, _)
\* Lexer::lex_num: err is the error! of line 229, raised at m.location
lex_num(m, num, base) ==
    LET m1 == Look(m, 0)
        c0 == cur(m)
        c == to_ascii_lowercase(c0)
    IN  IF c0 = None THEN [m |-> m1, num |-> num, err |-> FALSE]
        ELSE IF c \in BaseDigits(base)
        THEN lex_num(increment(m1), Append(num, c), base)
        ELSE IF c \in DecDigits \cup HexLetters
        THEN [m |-> m1, num |-> num, err |-> TRUE]
        ELSE IF c = "_" THEN lex_num(increment(m1), num, base)
        ELSE [m |-> m1, num |-> num, err |-> FALSE]

RECURSIVE string_loop(_, _)
\* the loop of Lexer::lex_string_literal, lines 199-213
string_loop(m, string) ==
    LET m1 == Look(m, 0)
        c == cur(m)
    IN  IF c = None THEN [m |-> m1, string |-> string, panic |-> FALSE]
        ELSE IF c = Quote
        THEN [m |-> increment(m1), string |-> string, panic |-> FALSE]
        ELSE IF c = Newline
        THEN [m |-> m1, string |-> string, panic |-> TRUE]
        ELSE string_loop(increment(m1), Append(string, c))

\* Lexer::lex_string_literal
lex_string_literal(m) ==
    LET loc == m.location
        r == string_loop(increment(m), <<>>)
    IN  [m |-> r.m, panic |-> r.panic,
         token |-> Token_new("StringLiteral", loc, r.string)]

RECURSIVE comment_loop_StopsAtNewline(_)
\* the comment loop leaving the newline unconsumed
comment_loop_StopsAtNewline(m) ==
    LET m1 == Look(m, 0)
        c == cur(m)
    IN  IF c = None \/ c = Newline THEN m1
        ELSE comment_loop_StopsAtNewline(increment(m1))

RECURSIVE comment_loop(_)
\* the loop of the line comment, lines 127-132
comment_loop(m) ==
    LET m1 == Look(m, 0)
        c == cur(m)
    IN  IF c = None THEN m1
        ELSE IF c = Newline THEN increment(m1)
        ELSE comment_loop(increment(m1))

IdentChars == LowerLetters \cup UpperLetters \cup DecDigits \cup {"_"}
IdentStart == LowerLetters \cup UpperLetters \cup {"_"}

RECURSIVE ident_loop(_, _)
\* the loop of the identifier arm, lines 177-185
ident_loop(m, ident) ==
    LET m1 == Look(m, 0)
        c == cur(m)
    IN  IF c \in IdentChars THEN ident_loop(increment(m1), Append(ident, c))
        ELSE [m |-> m1, ident |-> ident]

(***************************************************************************)
(* Lexer::lex                                                              *)
(***************************************************************************)
\* the arms of the match that push one token of one character
SimpleKind ==
    [c \in {"+", "-", "*", "(", ")", "[", "]", "|", ":", ";", ",", "{", "}",
            "@"} |->
       CASE c = "+" -> "Plus" [] c = "-" -> "Minus" [] c = "*" -> "Star"
         [] c = "(" -> "LeftParen" [] c = ")" -> "RightParen"
         [] c = "[" -> "LeftBracket" [] c = "]" -> "RightBracket"
         [] c = "|" -> "Pipe" [] c = ":" -> "Colon"
         [] c = ";" -> "SemiColon" [] c = "," -> "Comma"
         [] c = "{" -> "LeftBrace" [] c = "}" -> "RightBrace"
         [] c = "@" -> "At"]

\* the arms of the match that look at the next character first
PeekChars == {"=", "<", ">", "!", "."}

\* the token kind and length chosen by the arms '=', '<', '>', '!', '.'
PeekArm(c, next) ==
    CASE c = "=" /\ next = ">" -> [kind |-> "FatArrow", len |-> 2]
      [] c = "=" /\ next = "=" -> [kind |-> "EqualsEquals", len |-> 2]
      [] c = "=" /\ next \notin {">", "="} -> [kind |-> "Equals", len |-> 1]
      [] c = "<" /\ next = "=" -> [kind |-> "LessThanEquals", len |-> 2]
      [] c = "<" /\ next # "=" -> [kind |-> "LessThan", len |-> 1]
      [] c = ">" /\ next = "=" -> [kind |-> "GreaterThanEquals", len |-> 2]
      [] c = ">" /\ next # "=" -> [kind |-> "GreaterThan", len |-> 1]
      [] c = "!" /\ next = "=" -> [kind |-> "BangEquals", len |-> 2]
      [] c = "!" /\ next # "=" -> [kind |-> "Bang", len |-> 1]
      [] c = "." /\ next = "." -> [kind |-> "DotDot", len |-> 2]
      [] c = "." /\ next # "." -> [kind |-> "Dot", len |-> 1]

Running == [kind |-> "Running"]
Ok(toks) == [kind |-> "Ok", tokens |-> toks]
Err(loc, message) == [kind |-> "Err", location |-> loc, message |-> message]
Panic(message) == [kind |-> "Panic", message |-> message]

\* Lexer::new
new(source) ==
    /\ input = source
    /\ location = [line |-> 1, column |-> 1]
    /\ current_index = 0
    /\ seen_newline = FALSE
    /\ tokens = <<>>
    /\ result = Running
    /\ looked = -1
    /\ emitted_at = <<>>
    /\ last_arm = "new"
    /\ arm_start = 0
    /\ iterations = 0

\* no operator of Value has been called
NoCall == [fn |-> "none"]
NoRet == [kind |-> "None"]
ValueIdle == call = NoCall /\ ret = NoRet /\ overflow_checks = FALSE

Init ==
    /\ \E source \in Strings(Alphabet, MaxLen) : new(source)
    /\ first_run = <<>>
    /\ ValueIdle

InitLong ==
    /\ \E source \in Strings(AlphabetLong, MaxLong) : new(source)
    /\ first_run = <<>>
    /\ ValueIdle

\* the state of the lexer after one arm: its fields, the outcome, the arm
Commit(m, res, arm) ==
    /\ location' = m.location
    /\ current_index' = m.current_index
    /\ seen_newline' = m.seen_newline
    /\ tokens' = m.tokens
    /\ looked' = m.looked
    /\ emitted_at' = m.emitted_at
    /\ result' = res
    /\ last_arm' = arm
    /\ arm_start' = current_index
    /\ iterations' = IF current_index < Len(input) THEN iterations + 1
                     ELSE iterations
    /\ UNCHANGED <<input, first_run, value_vars>>

\* while let Some(c) = self.cur(): the loop is running and c is read
InLoop == result = Running /\ current_index < Len(input)
C == input[current_index + 1]
M0 == Look(Self, 0)

\* the white space arm without the call of increment
SkipWhitespace_NoAdvance ==
    /\ InLoop
    /\ C \in Whitespace
    /\ Commit(M0, Running, "whitespace")

\* line 74
SkipWhitespace ==
    /\ InLoop
    /\ C \in Whitespace
    /\ Commit(increment(M0), Running, "whitespace")

\* the guard of line 77
IsBasePrefix == C = "0" /\ peek(Self, 1) \in {"b", "o", "x"}

\* lines 80-85
BaseOf(c) == CASE c = "b" -> "Bin" [] c = "o" -> "Oct" [] c = "x" -> "Hex"
               [] OTHER -> "Dec"

\* lines 76-95
LexBaseN ==
    /\ InLoop
    /\ IsBasePrefix
    /\ LET m1 == Look(M0, 1)
           base == BaseOf(peek(Self, 1))
           r == lex_num(increment(increment(m1)), <<>>, base)
       IN  IF r.err
           THEN Commit(r.m, Err(r.m.location, "Invalid numerical literal"),
                       "base")
           ELSE Commit(push(r.m, Token_new(BaseKind(base), r.m.location,
                                           r.num)),
                       Running, "base")

\* lines 97-121
LexDecimal ==
    /\ InLoop
    /\ C \in DecDigits
    /\ ~IsBasePrefix
    /\ LET m1 == IF C = "0" THEN Look(M0, 1) ELSE M0
           loc == location
           r == lex_num(m1, <<>>, "Dec")
           m2 == Look(r.m, 0)
           m3 == Look(m2, 1)
           f == lex_num(increment(m3), Append(r.num, "."), "Dec")
       IN  IF r.err
           THEN Commit(r.m, Err(r.m.location, "Invalid numerical literal"),
                       "decimal")
           ELSE IF cur(r.m) = "."
           THEN IF peek(r.m, 1) = "."
                THEN Commit(push(m3, Token_new("IntegerLiteralDec", loc,
                                               r.num)),
                            Running, "decimal")
                ELSE IF f.err
                THEN Commit(f.m, Err(f.m.location,
                                     "Invalid numerical literal"),
                            "decimal")
                ELSE Commit(push(f.m, Token_new("FloatLiteral", loc, f.num)),
                            Running, "decimal")
           ELSE Commit(push(m2, Token_new("IntegerLiteralDec", loc, r.num)),
                       Running, "decimal")

\* the outcome of an arm that ends in push_simple
CommitSimple(r, arm) ==
    IF r.panic
    THEN Commit(r.m, Panic("byte index is not a char boundary"), arm)
    ELSE Commit(r.m, Running, arm)

\* lines 125-135
LexSlash ==
    /\ InLoop
    /\ C = "/"
    /\ LET m1 == Look(M0, 1) IN
       IF peek(Self, 1) = "/"
       THEN Commit(comment_loop(m1), Running, "comment")
       ELSE CommitSimple(push_simple(m1, "Slash", 1), "slash")

\* lines 122-124, 136-163 and 168-171
LexPunctuation ==
    /\ InLoop
    /\ C \in DOMAIN SimpleKind \cup PeekChars
    /\ IF C \in PeekChars
       THEN LET arm == PeekArm(C, peek(Self, 1)) IN
            CommitSimple(push_simple(Look(M0, 1), arm.kind, arm.len),
                         "punctuation")
       ELSE CommitSimple(push_simple(M0, SimpleKind[C], 1), "punctuation")

\* lines 164-167
LexString ==
    /\ InLoop
    /\ C = Quote
    /\ LET r == lex_string_literal(M0) IN
       IF r.panic
       THEN Commit(r.m, Panic("Unexpected newline in string literal"),
                   "string")
       ELSE Commit(push(r.m, r.token), Running, "string")

\* lines 173-187
LexIdentifier ==
    /\ InLoop
    /\ C \in IdentStart
    /\ LET loc == location
           r == ident_loop(M0, <<>>)
       IN  Commit(push(r.m, Token_from_str(r.ident, loc)), Running,
                  "identifier")

\* line 188
UnexpectedCharacter ==
    /\ InLoop
    /\ C \notin Whitespace \cup DecDigits \cup DOMAIN SimpleKind
                \cup PeekChars \cup {"/", Quote} \cup IdentStart
    /\ Commit(M0, Err(location, "Unexpected character"), "unexpected")

\* the end of lex returning the tokens without the EOF token
LexEOF_WithoutToken ==
    /\ result = Running
    /\ current_index >= Len(input)
    /\ Commit(M0, Ok(M0.tokens), "eof")

\* lines 191-192
LexEOF ==
    /\ result = Running
    /\ current_index >= Len(input)
    /\ LET r == push_simple(M0, "EOF", 0) IN
       IF r.panic
       THEN Commit(r.m, Panic("byte index is not a char boundary"), "eof")
       ELSE Commit(r.m, Ok(r.m.tokens), "eof")

Next ==
    \/ SkipWhitespace
    \/ LexBaseN
    \/ LexDecimal
    \/ LexSlash
    \/ LexPunctuation
    \/ LexString
    \/ LexIdentifier
    \/ UnexpectedCharacter
    \/ LexEOF

Spec == Init /\ [][Next]_vars

SpecLong == InitLong /\ [][Next]_vars

(***************************************************************************)
(* A second run of the lexer over the texts of the tokens of a first run   *)
(***************************************************************************)
RECURSIVE JoinTexts(_)
\* the text fields of the tokens in order, one space after each
JoinTexts(toks) ==
    IF toks = <<>> THEN <<>>
    ELSE Head(toks).text \o <<" ">> \o JoinTexts(Tail(toks))

\* Lexer::new on the joined texts of the tokens lex returned
Relex ==
    /\ result.kind = "Ok"
    /\ first_run = <<>>
    /\ first_run' = result.tokens
    /\ input' = JoinTexts(result.tokens)
    /\ location' = [line |-> 1, column |-> 1]
    /\ current_index' = 0
    /\ seen_newline' = FALSE
    /\ tokens' = <<>>
    /\ result' = Running
    /\ looked' = -1
    /\ emitted_at' = <<>>
    /\ last_arm' = "new"
    /\ arm_start' = 0
    /\ iterations' = 0
    /\ UNCHANGED value_vars

NextRoundTrip == Next \/ Relex

SpecRoundTrip == Init /\ [][NextRoundTrip]_vars

(***************************************************************************)
(* Value (src/src/value.rs)                                                *)
(*                                                                         *)
(* Integer(i64) is narrowed to IntBits bits, two's complement.  A Float is *)
(* a fraction num/den in lowest terms with den > 0, or den = 0 for the     *)
(* infinities (num = 1, -1) and NaN (num = 0); the rounding of f64 is not  *)
(* modelled.  A String is a sequence of characters.                        *)
(***************************************************************************)
IntBits == 4
MaxStr == 3
MaxIndex == 3

RECURSIVE Pow2(_)
Pow2(n) == IF n = 0 THEN 1 ELSE 2 * Pow2(n - 1)

\* i64::MIN and i64::MAX at the width of the model
IntMin == -Pow2(IntBits - 1)
IntMax == Pow2(IntBits - 1) - 1

\* the value of a two's complement integer of IntBits bits after overflow
Wrap(x) == ((x - IntMin) % Pow2(IntBits)) + IntMin

Integer(n) == [tag |-> "Integer", int |-> n]
Float(n, d) == [tag |-> "Float", num |-> n, den |-> d]
String(s) == [tag |-> "String", str |-> s]
Boolean(b) == [tag |-> "Boolean", bool |-> b]
BuiltInFunction(name) == [tag |-> "BuiltInFunction", name |-> name]
Function == [tag |-> "Function"]
Nothing == [tag |-> "Nothing"]

\* Option<Value>::None
Absent == [tag |-> "Option::None"]

\* the outcomes of a call: the Value returned, the exit of error!, a panic
Returns(v) == [kind |-> "Value", value |-> v]
Error(message) == [kind |-> "Error", message |-> message]
Fault(message) == [kind |-> "Panic", message |-> message]

Abs(x) == IF x < 0 THEN -x ELSE x
Sign(x) == IF x < 0 THEN -1 ELSE IF x > 0 THEN 1 ELSE 0

RECURSIVE Gcd(_, _)
Gcd(a, b) == IF b = 0 THEN a ELSE Gcd(b, a % b)

\* the f64 of the fraction n/d
Fraction(n, d) ==
    IF d = 0 THEN Float(Sign(n), 0)
    ELSE LET g == Gcd(Abs(n), Abs(d)) IN
         Float(Sign(d) * (n \div g), Abs(d) \div g)

\* left as f64
as_f64(n) == Float(n, 1)

\* f64 +, -, *, / on finite operands
f64_add(x, y) == Fraction(x.num * y.den + y.num * x.den, x.den * y.den)
f64_sub(x, y) == Fraction(x.num * y.den - y.num * x.den, x.den * y.den)
f64_mul(x, y) == Fraction(x.num * y.num, x.den * y.den)
f64_div(x, y) == Fraction(x.num * y.den, x.den * y.num)

\* i64 +, -, *: on overflow a build with overflow checks panics, one
\* without them wraps
\* an integer operation whose result is converted to f64
i64_op_AsFloat(exact, checks, message) == Returns(as_f64(exact))

\* left + right, left - right, left * right on i64: the exact result when it
\* fits; otherwise a panic in a build with overflow checks, else it wraps
i64_op(exact, checks, message) ==
    IF exact < IntMin \/ exact > IntMax
    THEN IF checks THEN Fault(message) ELSE Returns(Integer(Wrap(exact)))
    ELSE Returns(Integer(exact))

\* the quotient rounded toward minus infinity
i64_quotient_floor(a, b) == a \div b

\* the quotient of |a| by |b| with the sign of a/b: i64 / rounds toward zero
i64_quotient(a, b) == Sign(a) * Sign(b) * (Abs(a) \div Abs(b))

\* i64 /: panics on a zero divisor and on i64::MIN / -1 in every build
i64_div(a, b) ==
    IF b = 0 THEN Fault("attempt to divide by zero")
    ELSE IF a = IntMin /\ b = -1
    THEN Fault("attempt to divide with overflow")
    ELSE Returns(Integer(i64_quotient(a, b)))

RECURSIVE str_len(_)
\* String::len: the number of bytes of the UTF-8 encoding
str_len(s) == IF s = <<>> THEN 0 ELSE len_utf8(Head(s)) + str_len(Tail(s))

RECURSIVE repeat_Pairs(_, _)
\* two copies of s for each count
repeat_Pairs(s, n) == IF n = 0 THEN <<>> ELSE s \o s \o repeat_Pairs(s, n - 1)

RECURSIVE repeat(_, _)
\* str::repeat: n copies of s
repeat(s, n) == IF n = 0 THEN <<>> ELSE s \o repeat(s, n - 1)

\* Value::add
add(left, right, checks) ==
    CASE left.tag = "Integer" /\ right.tag = "Integer" ->
           i64_op(left.int + right.int, checks, "attempt to add with overflow")
      [] left.tag = "Integer" /\ right.tag = "Float" ->
           Returns(f64_add(as_f64(left.int), right))
      [] left.tag = "Float" /\ right.tag = "Float" ->
           Returns(f64_add(left, right))
      [] left.tag = "Float" /\ right.tag = "Integer" ->
           Returns(f64_add(left, as_f64(right.int)))
      [] left.tag = "String" /\ right.tag = "String" ->
           Returns(String(left.str \o right.str))
      [] OTHER -> Error("Invalid types for addition")

\* Value::subtract
subtract(left, right, checks) ==
    CASE left.tag = "Integer" /\ right.tag = "Integer" ->
           i64_op(left.int - right.int, checks,
                  "attempt to subtract with overflow")
      [] left.tag = "Integer" /\ right.tag = "Float" ->
           Returns(f64_sub(as_f64(left.int), right))
      [] left.tag = "Float" /\ right.tag = "Float" ->
           Returns(f64_sub(left, right))
      [] left.tag = "Float" /\ right.tag = "Integer" ->
           Returns(f64_sub(left, as_f64(right.int)))
      [] OTHER -> Error("Invalid types for subtraction")

\* Value::multiply
multiply(left, right, checks) ==
    CASE left.tag = "Integer" /\ right.tag = "Integer" ->
           i64_op(left.int * right.int, checks,
                  "attempt to multiply with overflow")
      [] left.tag = "Integer" /\ right.tag = "Float" ->
           Returns(f64_mul(as_f64(left.int), right))
      [] left.tag = "Float" /\ right.tag = "Float" ->
           Returns(f64_mul(left, right))
      [] left.tag = "Float" /\ right.tag = "Integer" ->
           Returns(f64_mul(left, as_f64(right.int)))
      [] left.tag = "String" /\ right.tag = "Integer" ->
           IF right.int < 0 THEN Error("is not a positive integer.")
           ELSE IF str_len(left.str) * right.int > IntMax
           THEN Fault("capacity overflow")
           ELSE Returns(String(repeat(left.str, right.int)))
      [] OTHER -> Error("Invalid types for multiplication")

\* Value::divide
divide(left, right, checks) ==
    CASE left.tag = "Integer" /\ right.tag = "Integer" ->
           i64_div(left.int, right.int)
      [] left.tag = "Integer" /\ right.tag = "Float" ->
           Returns(f64_div(as_f64(left.int), right))
      [] left.tag = "Float" /\ right.tag = "Float" ->
           Returns(f64_div(left, right))
      [] left.tag = "Float" /\ right.tag = "Integer" ->
           Returns(f64_div(left, as_f64(right.int)))
      [] OTHER -> Error("Invalid types for division")

\* the default, whatever the argument
unwrap_or_IgnoresArgument(opt, default) == default

\* Option::unwrap_or
unwrap_or(opt, default) == IF opt = Absent THEN default ELSE opt

\* the operands of the calls
StrAlphabet == {"a", "b", EAcute}
Ints == IntMin..IntMax
Operands ==
    {Integer(n) : n \in Ints}
    \cup {Float(3, 2), Float(0, 1), Float(-2, 1)}
    \cup {String(s) : s \in Strings(StrAlphabet, MaxStr)}
    \cup {Boolean(TRUE), BuiltInFunction("print"), Function, Nothing}

SliceInts == (-MaxIndex..MaxIndex) \cup {IntMin, IntMax}
SliceSubjects ==
    {String(s) : s \in Strings(StrAlphabet, MaxStr)}
    \cup {Integer(1), Boolean(TRUE), Nothing}
SliceArgs ==
    {Absent} \cup {Integer(n) : n \in SliceInts}
    \cup {Float(3, 2), String(<<"a">>)}

InitValue ==
    /\ new(<<>>)
    /\ first_run = <<>>
    /\ call = NoCall
    /\ ret = NoRet
    /\ overflow_checks \in BOOLEAN

\* a call of one of the four arithmetic operators
Arithmetic(fn, left, right, outcome) ==
    /\ call' = [fn |-> fn, left |-> left, right |-> right]
    /\ ret' = outcome
    /\ UNCHANGED <<lexer_vars, first_run, overflow_checks>>

\* lines 21-30
Add ==
    /\ call = NoCall
    /\ \E left \in Operands, right \in Operands :
           Arithmetic("add", left, right, add(left, right, overflow_checks))

\* lines 32-40
Subtract ==
    /\ call = NoCall
    /\ \E left \in Operands, right \in Operands :
           Arithmetic("subtract", left, right,
                   subtract(left, right, overflow_checks))

\* lines 42-54
Multiply ==
    /\ call = NoCall
    /\ \E left \in Operands, right \in Operands :
           Arithmetic("multiply", left, right,
                   multiply(left, right, overflow_checks))

\* lines 56-64
Divide ==
    /\ call = NoCall
    /\ \E left \in Operands, right \in Operands :
           Arithmetic("divide", left, right,
                   divide(left, right, overflow_checks))

\* the call of slice with its arguments; pc is "loop" while the loop of lines
\* 77-80 runs, with its variables i and result, and "done" after the call
SliceCall(self, start, end, step, pc, i, to, by) ==
    [fn |-> "slice", self |-> self, start |-> start, end |-> end,
     step |-> step, pc |-> pc, i |-> i, to |-> to, by |-> by,
     result |-> <<>>]

\* lines 66-76 and 83-87: the defaults, the matches and the check of step
Slice ==
    /\ call = NoCall
    /\ \E self \in SliceSubjects, start \in SliceArgs, end \in SliceArgs,
          step \in SliceArgs :
          LET st == unwrap_or(start, Integer(0))
              sp == unwrap_or(step, Integer(1))
              en == unwrap_or(end, Integer(str_len(self.str)))
              done == SliceCall(self, start, end, step, "done", 0, 0, 0)
          IN  IF self.tag # "String"
              THEN call' = done /\ ret' = Error("Can only slice strings")
              ELSE IF st.tag = "Integer" /\ en.tag = "Integer"
                      /\ sp.tag = "Integer"
              THEN IF sp.int = 0
                   THEN call' = done /\ ret' = Error("Step cannot be 0")
                   ELSE /\ call' = SliceCall(self, start, end, step, "loop",
                                             st.int, en.int, sp.int)
                        /\ ret' = NoRet
              ELSE call' = done /\ ret' = Error("Invalid types for slice")
    /\ UNCHANGED <<lexer_vars, first_run, overflow_checks>>

\* the character at i modulo the number of characters
nth_Wrapping(s, i) == IF s = <<>> THEN None ELSE s[(i % Len(s)) + 1]

\* s.chars().nth(i as usize): i counts characters; a negative i is a usize
\* beyond every index
nth(s, i) == IF i < 0 \/ i >= Len(s) THEN None ELSE s[i + 1]

\* lines 77-81: one test of the loop condition, and one round if it holds
SliceLoop ==
    /\ call.fn = "slice"
    /\ call.pc = "loop"
    /\ LET s == call.self.str
           next == call.i + call.by
       IN  IF call.i < call.to
           THEN IF nth(s, call.i) = None
                THEN /\ call' = [call EXCEPT !.pc = "done"]
                     /\ ret' = Fault("called Option::unwrap() on a None value")
                ELSE IF (next < IntMin \/ next > IntMax) /\ overflow_checks
                THEN /\ call' = [call EXCEPT
                                   !.pc = "done",
                                   !.result = Append(@, nth(s, call.i))]
                     /\ ret' = Fault("attempt to add with overflow")
                ELSE /\ call' = [call EXCEPT
                                   !.result = Append(@, nth(s, call.i)),
                                   !.i = Wrap(next)]
                     /\ ret' = ret
           ELSE /\ call' = [call EXCEPT !.pc = "done"]
                /\ ret' = Returns(String(call.result))
    /\ UNCHANGED <<lexer_vars, first_run, overflow_checks>>

NextValue == Add \/ Subtract \/ Multiply \/ Divide \/ Slice \/ SliceLoop

SpecValue == InitValue /\ [][NextValue]_vars

(***************************************************************************)
(* Properties.  The functions of the input used below are computed from    *)
(* the input alone, not from the lexer's fields.                           *)
(***************************************************************************)
\* the 1-based positions of the newlines among the first k characters
NewlinesIn(k) == {i \in 1..k : input[i] = Newline}

\* the line and column after k characters of the input have been consumed
LocationAfter(k) ==
    LET nl == NewlinesIn(k)
        last == IF nl = {} THEN 0
                ELSE CHOOSE i \in nl : \A j \in nl : j <= i
    IN  [line |-> 1 + Cardinality(nl), column |-> 1 + (k - last)]

\* a newline is among the characters of index a .. b-1 (from 0)
NewlineBetween(a, b) == \E i \in (a + 1)..b : input[i] = Newline

\* the string opened by the quote of index i (from 0) has no closing quote
\* before the next newline or the end of the input
UnterminatedAt(i) ==
    \A j \in (i + 2)..Len(input) :
        input[j] = Quote => \E k \in (i + 2)..(j - 1) : input[k] = Newline

LastToken == tokens[Len(tokens)]
Failed == result.kind \in {"Err", "Panic"}

\* C1: when the string arm has run on a quote whose string is not closed
\* before the next newline or the end of the input, the lexer has failed:
\* no token sequence is returned for such an input.
C1_UnterminatedStringFails ==
    (last_arm = "string" /\ UnterminatedAt(arm_start)) => Failed

\* C2: whenever lex returns Ok, the sequence holds exactly one EOF token, the
\* last one, with empty text, located at the lexer's final location, which is
\* the location after the whole input.
C2_ExactlyOneEofAtEnd ==
    result.kind = "Ok" =>
        LET t == result.tokens IN
        /\ Len(t) >= 1
        /\ t[Len(t)].kind = "EOF"
        /\ t[Len(t)].text = <<>>
        /\ t[Len(t)].location = location
        /\ location = LocationAfter(Len(input))
        /\ \A k \in 1..(Len(t) - 1) : t[k].kind # "EOF"

\* C2 witness: a successful run over several lines with other tokens
C2_Witness ==
    /\ result.kind = "Ok"
    /\ Len(result.tokens) >= 3
    /\ location.line > 1

\* the two-character operators and their kinds
TwoCharKind(a, b) ==
    CASE a = "=" /\ b = "=" -> "EqualsEquals"
      [] a = "!" /\ b = "=" -> "BangEquals"
      [] a = "<" /\ b = "=" -> "LessThanEquals"
      [] a = ">" /\ b = "=" -> "GreaterThanEquals"
      [] a = "=" /\ b = ">" -> "FatArrow"
      [] a = "." /\ b = "." -> "DotDot"
      [] OTHER -> "none"

\* C3: whenever the main loop is at a character and it and the next one
\* spell ==, !=, <=, >=, => or .., the step pushes exactly one token, of the
\* two-character kind, and advances by two characters.
C3_LongestMatchFirst ==
    [][(InLoop /\ TwoCharKind(C, peek(Self, 1)) # "none") =>
          /\ result' = Running
          /\ Len(tokens') = Len(tokens) + 1
          /\ tokens'[Len(tokens')].kind = TwoCharKind(C, peek(Self, 1))
          /\ current_index' = current_index + 2]_vars

\* current_index at the push before the k-th one (0 at the start of input)
PrevEmit(k) == IF k = 1 THEN 0 ELSE emitted_at[k - 1]

\* C4: newline_before of every pushed token is true exactly when a newline is
\* among the characters consumed since the previous push (or the start), and
\* seen_newline is true exactly when a newline was consumed since the last
\* push, so it is false right after every push.
C4_NewlineBefore ==
    /\ \A k \in 1..Len(tokens) :
          tokens[k].newline_before
              = NewlineBetween(PrevEmit(k), emitted_at[k])
    /\ seen_newline = NewlineBetween(PrevEmit(Len(tokens) + 1), current_index)

\* C4 witness: a newline was skipped before one token and not before another,
\* and the flag is clear after the last push
C4_Witness ==
    /\ \E k \in 1..Len(tokens) :
          tokens[k].newline_before /\ tokens[k].kind # "EOF"
    /\ \E k \in 2..Len(tokens) :
          ~tokens[k].newline_before /\ emitted_at[k] > emitted_at[k - 1]
    /\ ~seen_newline

\* the characters that start an arm of the match other than the last one
StartsToken == Whitespace \cup DecDigits \cup DOMAIN SimpleKind \cup PeekChars
               \cup {"/", Quote} \cup IdentStart

\* the characters lex_num takes for digits of some base
DigitLike(c) == to_ascii_lowercase(c) \in DecDigits \cup HexLetters

\* the base of the literal the last arm scanned
ArmBase == IF last_arm = "base" THEN BaseOf(input[arm_start + 2]) ELSE "Dec"

\* C5, the error returned: it is located at the offending character, which is
\* a character that starts no token or a digit not valid for the literal's
\* base; it carries no tokens; no character after it was read.
C5_ErrState ==
    result.kind = "Err" =>
        /\ current_index < Len(input)
        /\ result.location = LocationAfter(current_index)
        /\ looked <= current_index
        /\ DOMAIN result = {"kind", "location", "message"}
        /\ LET c == input[current_index + 1] IN
           \/ last_arm = "unexpected" /\ c \notin StartsToken
           \/ /\ last_arm \in {"base", "decimal"}
              /\ DigitLike(c)
              /\ to_ascii_lowercase(c) \notin BaseDigits(ArmBase)

\* C5, no offending digit is passed over: a literal that was pushed has no
\* digit that is invalid for its base inside it or right after it
C5_NoInvalidDigitAccepted ==
    (last_arm \in {"base", "decimal"} /\ result = Running) =>
        /\ \A i \in (IF last_arm = "base" THEN arm_start + 3
                     ELSE arm_start + 1)..current_index :
              \/ to_ascii_lowercase(input[i]) \in BaseDigits(ArmBase)
              \/ input[i] \in {"_", "."}
        /\ current_index < Len(input) => ~DigitLike(input[current_index + 1])

\* C5: a character that starts no token, or a digit that is not valid for the
\* base of the literal it is in, ends lex at once with an error located at
\* that character; no tokens are returned and no later character is read.
C5_FirstErrorAborts ==
    /\ [](C5_ErrState /\ C5_NoInvalidDigitAccepted)
    /\ [][(InLoop /\ C \notin StartsToken) =>
             /\ result'.kind = "Err"
             /\ result'.location = LocationAfter(current_index)
             /\ current_index' = current_index]_vars

\* C5 witness: an invalid digit after the first line ended a literal with an
\* error, after a token had already been pushed
C5_Witness ==
    /\ result.kind = "Err"
    /\ last_arm \in {"base", "decimal"}
    /\ Len(tokens) >= 1
    /\ result.location.column > 1

\* the characters of s other than the separator
NoSep(s) == SelectSeq(s, LAMBDA c : c # "_")

\* C6: an integer literal token has the kind of its prefix (or Dec without
\* one) and its text is the literal's digit characters as they are in the
\* source, with only the prefix and the separators removed.
C6_DigitsAsWritten ==
    /\ (last_arm = "base" /\ result = Running) =>
          /\ LastToken.kind = BaseKind(BaseOf(input[arm_start + 2]))
          /\ LastToken.text
               = NoSep(SubSeq(input, arm_start + 3, current_index))
    /\ (last_arm = "decimal" /\ result = Running
        /\ LastToken.kind = "IntegerLiteralDec") =>
          LastToken.text = NoSep(SubSeq(input, arm_start + 1, current_index))

\* the end of the run of decimal digits and separators that starts at index i
RunEnd(i) ==
    CHOOSE j \in i..Len(input) :
        /\ \A k \in (i + 1)..j : input[k] \in DecDigits \cup {"_"}
        /\ j < Len(input) => input[j + 1] \notin DecDigits \cup {"_"}

\* the character of index i (from 0), None past the end
CharOf(i) == IF i < Len(input) THEN input[i + 1] ELSE None

\* C7, the decimal arm: a run followed by .. is pushed as IntegerLiteralDec
\* and the scan stops before the dots; a run followed by one . is pushed as
\* one FloatLiteral of the two runs around the .
C7_DecimalArm ==
    (last_arm = "decimal" /\ result = Running) =>
        LET j == RunEnd(arm_start)
            e == RunEnd(j + 1)
        IN  IF CharOf(j) = "." /\ CharOf(j + 1) = "."
            THEN /\ LastToken.kind = "IntegerLiteralDec"
                 /\ LastToken.text = NoSep(SubSeq(input, arm_start + 1, j))
                 /\ current_index = j
            ELSE IF CharOf(j) = "."
            THEN /\ LastToken.kind = "FloatLiteral"
                 /\ LastToken.text
                      = NoSep(SubSeq(input, arm_start + 1, j)) \o <<".">>
                        \o NoSep(SubSeq(input, j + 2, e))
                 /\ current_index = e
            ELSE LastToken.kind = "IntegerLiteralDec"

\* C7, a prefixed literal is never a FloatLiteral
C7_BaseArm ==
    (last_arm = "base" /\ result = Running) =>
        LastToken.kind \in {"IntegerLiteralBin", "IntegerLiteralOct",
                            "IntegerLiteralHex"}

\* the last arm started at two dots that follow a pushed decimal integer
AfterDecBeforeDotDot ==
    /\ last_arm = "punctuation"
    /\ CharOf(arm_start) = "." /\ CharOf(arm_start + 1) = "."
    /\ arm_start > 0 /\ input[arm_start] \in DecDigits \cup {"_"}
    /\ \E k \in 1..Len(tokens) :
          tokens[k].kind = "IntegerLiteralDec" /\ emitted_at[k] = arm_start

\* C7, the .. after a decimal run is pushed next as one DotDot token
C7_DotDotNext ==
    AfterDecBeforeDotDot =>
        /\ result = Running
        /\ LastToken.kind = "DotDot"
        /\ current_index = arm_start + 2

\* C7: after a decimal run, .. leaves the run an IntegerLiteralDec and is
\* pushed next as one DotDot; a single . makes the run and the run after it
\* one FloatLiteral; a prefixed literal is never a FloatLiteral.
C7_FloatOrRange == C7_DecimalArm /\ C7_BaseArm /\ C7_DotDotNext

\* the index after the first newline at or after index i, or the end of input
CommentEnd(i) ==
    IF \E j \in (i + 1)..Len(input) : input[j] = Newline
    THEN CHOOSE j \in (i + 1)..Len(input) :
             /\ input[j] = Newline
             /\ \A k \in (i + 1)..(j - 1) : input[k] # Newline
    ELSE Len(input)

\* C8: the step taken at // pushes no token and consumes up to and including
\* the next newline (or to the end of input), after which the loop goes on
\* with the newline flag set if a newline was consumed; the token pushed by
\* the step after a comment that ended in a newline has newline_before true.
C8_LineComment ==
    [][/\ (InLoop /\ C = "/" /\ peek(Self, 1) = "/") =>
            /\ tokens' = tokens
            /\ result' = Running
            /\ current_index' = CommentEnd(current_index)
            /\ seen_newline'
                 = (seen_newline
                    \/ NewlineBetween(current_index, current_index'))
       /\ (/\ last_arm = "comment"
           /\ input[current_index] = Newline
           /\ Len(tokens') > Len(tokens)) =>
            tokens'[Len(tokens) + 1].newline_before]_vars

\* C8 witness: a comment ended by a newline, then a decimal literal that
\* carries newline_before, then EOF
C8_Witness ==
    /\ Len(input) >= 4
    /\ input[1] = "/" /\ input[2] = "/"
    /\ result.kind = "Ok"
    /\ Len(result.tokens) = 2
    /\ result.tokens[1].kind = "IntegerLiteralDec"
    /\ result.tokens[1].newline_before
    /\ result.tokens[1].location.line = 2

\* C9: after k characters have been consumed, line is 1 plus the newlines
\* among them and column is 1 plus the characters after the last of these
\* newlines; both are at least 1; they change only when current_index grows.
C9_LocationBookkeeping ==
    /\ [](/\ location = LocationAfter(current_index)
          /\ location.line >= 1
          /\ location.column >= 1)
    /\ [][location' # location => current_index' > current_index]_vars

\* C9 witness: characters were consumed after a newline was
C9_Witness == location.line >= 2 /\ location.column >= 2

\* the spelling of the punctuation and operator kinds
Spelling(kind) ==
    CASE kind = "Plus" -> <<"+">> [] kind = "Minus" -> <<"-">>
      [] kind = "Star" -> <<"*">> [] kind = "Slash" -> <<"/">>
      [] kind = "LeftParen" -> <<"(">> [] kind = "RightParen" -> <<")">>
      [] kind = "LeftBracket" -> <<"[">> [] kind = "RightBracket" -> <<"]">>
      [] kind = "Pipe" -> <<"|">> [] kind = "Colon" -> <<":">>
      [] kind = "Equals" -> <<"=">> [] kind = "EqualsEquals" -> <<"=", "=">>
      [] kind = "FatArrow" -> <<"=", ">">>
      [] kind = "LessThan" -> <<"<">>
      [] kind = "LessThanEquals" -> <<"<", "=">>
      [] kind = "GreaterThan" -> <<">">>
      [] kind = "GreaterThanEquals" -> <<">", "=">>
      [] kind = "Bang" -> <<"!">> [] kind = "BangEquals" -> <<"!", "=">>
      [] kind = "SemiColon" -> <<";">> [] kind = "Comma" -> <<",">>
      [] kind = "LeftBrace" -> <<"{">> [] kind = "RightBrace" -> <<"}">>
      [] kind = "At" -> <<"@">> [] kind = "Dot" -> <<".">>
      [] kind = "DotDot" -> <<".", ".">>

\* C10: the arm of a punctuation or operator character never faults, and the
\* token it pushes has the spelling of its kind for text: the characters at
\* the scan position.
C10_PunctuationText ==
    last_arm \in {"punctuation", "slash"} =>
        /\ result = Running
        /\ LastToken.text = Spelling(LastToken.kind)
        /\ LastToken.text
             = SubSeq(input, arm_start + 1, arm_start + Len(LastToken.text))

(***************************************************************************)
(* Properties of the lexer, continued                                      *)
(***************************************************************************)
\* C18: current_index never decreases and never passes the end of the input;
\* every iteration of the main loop fails or advances current_index; no
\* character further than one position after current_index is read; while
\* the loop runs, current_index is at least the number of iterations made,
\* so the loop ends within one iteration per character of the input, and
\* lex returns Ok only with the whole input consumed.
C18_ForwardProgress ==
    /\ [](/\ current_index <= Len(input)
          /\ looked <= current_index + 1
          /\ iterations <= Len(input)
          /\ result = Running => iterations <= current_index
          /\ result.kind = "Ok" => current_index = Len(input))
    /\ [][/\ current_index' >= current_index
          /\ InLoop => (Failed' \/ current_index' > current_index)]_vars

\* C18 witness: lex finished after an iteration for each character
C18_Witness ==
    /\ result.kind = "Ok"
    /\ iterations = Len(input)
    /\ iterations >= 3

\* the arms of the match that push a token
TokenArms == {"base", "decimal", "slash", "punctuation", "string",
              "identifier"}

\* C19: the token pushed by an arm has the location the lexer had when the
\* arm started, the location of the first character of the lexical unit.
C19_TokenLocation ==
    (last_arm \in TokenArms /\ result = Running) =>
        LastToken.location = LocationAfter(arm_start)

\* every character of text is in digits and there is at least one
DigitRun(text, digits) ==
    text # <<>> /\ \A i \in 1..Len(text) : text[i] \in digits

\* text is a digit run, one ".", and a digit run
FloatText(text) ==
    \E d \in 1..Len(text) :
        /\ text[d] = "."
        /\ DigitRun(SubSeq(text, 1, d - 1), DecDigits)
        /\ DigitRun(SubSeq(text, d + 1, Len(text)), DecDigits)

\* C20: every integer literal token has a non-empty text of digits valid for
\* its base, and every FloatLiteral text is digits, one ".", digits.
C20_NumericWellFormed ==
    \A k \in 1..Len(tokens) :
        LET t == tokens[k] IN
        /\ t.kind = "IntegerLiteralBin" => DigitRun(t.text, BinDigits)
        /\ t.kind = "IntegerLiteralOct" => DigitRun(t.text, OctDigits)
        /\ t.kind = "IntegerLiteralDec" => DigitRun(t.text, DecDigits)
        /\ t.kind = "IntegerLiteralHex" =>
              DigitRun(t.text, DecDigits \cup HexLetters)
        /\ t.kind = "FloatLiteral" => FloatText(t.text)

\* C17: when the texts of the tokens of a successful run are joined with
\* white space and tokenized again, the second run succeeds and returns as
\* many tokens, with the same kind and text at every position.
C17_RoundTrip ==
    (first_run # <<>> /\ result # Running) =>
        /\ result.kind = "Ok"
        /\ Len(result.tokens) = Len(first_run)
        /\ \A k \in 1..Len(first_run) :
              /\ result.tokens[k].kind = first_run[k].kind
              /\ result.tokens[k].text = first_run[k].text

(***************************************************************************)
(* Value arithmetic.                                                       *)
(***************************************************************************)
ArithmeticFns == {"add", "subtract", "multiply", "divide"}
Numeric == {"Integer", "Float"}

\* the entry of the coercion table for an operator and two operand variants
Table(fn, l, r) ==
    IF l = "Integer" /\ r = "Integer" THEN "Integer"
    ELSE IF l \in Numeric /\ r \in Numeric THEN "Float"
    ELSE IF fn = "add" /\ l = "String" /\ r = "String" THEN "concatenation"
    ELSE IF fn = "multiply" /\ l = "String" /\ r = "Integer" THEN "repetition"
    ELSE "type error"

InvalidTypes(fn) ==
    CASE fn = "add" -> "Invalid types for addition"
      [] fn = "subtract" -> "Invalid types for subtraction"
      [] fn = "multiply" -> "Invalid types for multiplication"
      [] fn = "divide" -> "Invalid types for division"

\* the exact result of an integer operation other than the division
Exact(fn, a, b) ==
    CASE fn = "add" -> a + b
      [] fn = "subtract" -> a - b
      [] fn = "multiply" -> a * b
      [] OTHER -> 0

\* the integer operations that return no Value
IntegerFault(fn, a, b) ==
    IF fn = "divide" THEN b = 0 \/ (a = IntMin /\ b = -1)
    ELSE overflow_checks /\ (Exact(fn, a, b) < IntMin \/ Exact(fn, a, b) > IntMax)

\* the repetitions that return no Value
RepetitionFault(s, n) == n < 0 \/ str_len(s) * n > IntMax

\* C11 as stated: for each operator and each ordered pair of operand
\* variants the call returns a Value of the variant of the coercion table
\* (Integer, Float, the concatenation, a repetition), and for every pair
\* outside the table it fails with a type error and returns no Value
C11_CoercionTable ==
    call.fn \in ArithmeticFns =>
        LET t == Table(call.fn, call.left.tag, call.right.tag)
        IN  CASE t = "Integer" ->
                   ret.kind = "Value" /\ ret.value.tag = "Integer"
              [] t = "Float" -> ret.kind = "Value" /\ ret.value.tag = "Float"
              [] t = "concatenation" ->
                   ret = Returns(String(call.left.str \o call.right.str))
              [] t = "repetition" ->
                   ret.kind = "Value" /\ ret.value.tag = "String"
              [] OTHER -> ret = Error(InvalidTypes(call.fn))

\* C11 amended: the table gives the variant of every Value that is returned;
\* Integer op Integer returns no Value exactly for a division by zero, for
\* i64::MIN / -1 and, in a build with overflow checks, for a sum, difference
\* or product outside i64; String * Integer returns no Value exactly for a
\* negative count and for a result longer than isize::MAX bytes; the mixes
\* with Float and the concatenation always return; every pair outside the
\* table fails with the type error of the operator
C11_CoercionTableWhenReturning ==
    call.fn \in ArithmeticFns =>
        LET t == Table(call.fn, call.left.tag, call.right.tag)
        IN  CASE t = "Integer" ->
                   IF IntegerFault(call.fn, call.left.int, call.right.int)
                   THEN ret.kind = "Panic"
                   ELSE ret.kind = "Value" /\ ret.value.tag = "Integer"
              [] t = "Float" -> ret.kind = "Value" /\ ret.value.tag = "Float"
              [] t = "concatenation" ->
                   ret = Returns(String(call.left.str \o call.right.str))
              [] t = "repetition" ->
                   IF RepetitionFault(call.left.str, call.right.int)
                   THEN ret.kind \in {"Error", "Panic"}
                   ELSE ret.kind = "Value" /\ ret.value.tag = "String"
              [] OTHER -> ret = Error(InvalidTypes(call.fn))

C11_Witness ==
    /\ call = [fn |-> "add", left |-> Integer(2), right |-> Float(3, 2)]
    /\ ret = Returns(Float(7, 2))

\* C12 as stated: for every a and every b # 0 the division of Integer(a) by
\* Integer(b) returns Integer(q), q the quotient rounded toward zero, and
\* with b = 0 it returns no Value
C12_DivisionTruncates ==
    (call.fn = "divide" /\ call.left.tag = "Integer"
     /\ call.right.tag = "Integer") =>
        LET a == call.left.int
            b == call.right.int
        IN  IF b = 0 THEN ret.kind # "Value"
            ELSE /\ ret.kind = "Value"
                 /\ ret.value.tag = "Integer"
                 /\ LET r == a - ret.value.int * b
                    IN  Abs(r) < Abs(b) /\ (r = 0 \/ Sign(r) = Sign(a))

\* C12 amended: the same, for every pair but i64::MIN / -1, whose quotient is
\* not an i64: that division returns no Value either, like the one by zero
C12_DivisionTruncatesInRange ==
    (call.fn = "divide" /\ call.left.tag = "Integer"
     /\ call.right.tag = "Integer") =>
        LET a == call.left.int
            b == call.right.int
        IN  IF b = 0 \/ (a = IntMin /\ b = -1) THEN ret.kind = "Panic"
            ELSE /\ ret.kind = "Value"
                 /\ ret.value.tag = "Integer"
                 /\ LET r == a - ret.value.int * b
                    IN  Abs(r) < Abs(b) /\ (r = 0 \/ Sign(r) = Sign(a))

C12_Witness ==
    /\ call = [fn |-> "divide", left |-> Integer(-7), right |-> Integer(2)]
    /\ ret = Returns(Integer(-3))

\* r is n copies of s, one after the other
IsRepetition(r, s, n) ==
    /\ Len(r) = n * Len(s)
    /\ \A k \in 1..Len(r) : r[k] = s[((k - 1) % Len(s)) + 1]

\* C13 as stated: String(s) * Integer(n) returns the String of n copies of s
\* for every n >= 0 (the empty string for n = 0) and fails, returning no
\* Value, for n < 0
C13_Repetition ==
    (call.fn = "multiply" /\ call.left.tag = "String"
     /\ call.right.tag = "Integer") =>
        IF call.right.int < 0 THEN ret.kind = "Error"
        ELSE /\ ret.kind = "Value"
             /\ ret.value.tag = "String"
             /\ IsRepetition(ret.value.str, call.left.str, call.right.int)

\* C13 amended: the same whenever the n copies take at most isize::MAX bytes;
\* a longer result is never built, and the call returns no Value
C13_RepetitionWithinCapacity ==
    (call.fn = "multiply" /\ call.left.tag = "String"
     /\ call.right.tag = "Integer") =>
        IF call.right.int < 0 THEN ret.kind = "Error"
        ELSE IF str_len(call.left.str) * call.right.int > IntMax
        THEN ret.kind = "Panic"
        ELSE /\ ret.kind = "Value"
             /\ ret.value.tag = "String"
             /\ IsRepetition(ret.value.str, call.left.str, call.right.int)

C13_Witness ==
    /\ call = [fn |-> "multiply", left |-> String(<<"a", "b">>),
               right |-> Integer(3)]
    /\ ret = Returns(String(<<"a", "b", "a", "b", "a", "b">>))

(***************************************************************************)
(* Value::slice.  A call is over when call.pc = "done".                    *)
(***************************************************************************)
IntegerOrAbsent(v) == v = Absent \/ v.tag = "Integer"

\* a call of slice on a String with Integer or absent start, end and step
SliceOfString ==
    /\ call.fn = "slice"
    /\ call.self.tag = "String"
    /\ IntegerOrAbsent(call.start)
    /\ IntegerOrAbsent(call.end)
    /\ IntegerOrAbsent(call.step)

\* start, end and step as section 4.3 of the specification gives them: an
\* absent end is the number of characters of the subject
StartOf == IF call.start = Absent THEN 0 ELSE call.start.int
StepOf == IF call.step = Absent THEN 1 ELSE call.step.int
EndOf == IF call.end = Absent THEN Len(call.self.str) ELSE call.end.int

RECURSIVE Walk(_, _, _, _)
\* the characters of s at i, i + step, i + 2 * step, ... below end
Walk(s, i, end, step) ==
    IF i < end THEN <<s[i + 1]>> \o Walk(s, i + step, end, step) ELSE <<>>

\* C14: on a String, with a positive step and every index of the walk
\* inside the string, slice returns the characters at start, start + step,
\* ... below end, an absent start being 0, an absent step 1 and an absent
\* end the length; so slice(s, None, None, None) returns s
C14_SliceResult ==
    (/\ SliceOfString
     /\ call.pc = "done"
     /\ StepOf > 0
     /\ StartOf >= 0
     /\ EndOf <= Len(call.self.str)) =>
        ret = Returns(String(Walk(call.self.str, StartOf, EndOf, StepOf)))

\* C15: slice returns no Value for a subject that is not a String ("Can only
\* slice strings"), for a present start, end or step that is not an Integer
\* (type error) and for a step of Integer(0), whatever the subject, start
\* and end; on a String with Integer or absent start and end the zero step
\* has an error of its own, raised before any character is extracted
C15_SliceFailures ==
    /\ [](call.fn = "slice" =>
            /\ call.self.tag # "String" =>
                  ret = Error("Can only slice strings")
            /\ (call.self.tag = "String" /\ ~SliceOfString) =>
                  ret = Error("Invalid types for slice")
            /\ call.step = Integer(0) =>
                  /\ call.pc = "done"
                  /\ ret.kind = "Error"
                  /\ call.result = <<>>
            /\ (SliceOfString /\ call.step = Integer(0)) =>
                  /\ ret = Error("Step cannot be 0")
                  /\ ret # Error("Invalid types for slice")
                  /\ ret # Error("Can only slice strings")
            /\ ret.kind = "Error" => call.result = <<>>)
    /\ [][ret'.kind = "Error" => call = NoCall]_vars

C15_Witness ==
    /\ call.fn = "slice"
    /\ call.self = String(<<"a", "b">>)
    /\ call.start = Integer(1)
    /\ call.step = Integer(0)
    /\ ret = Error("Step cannot be 0")

\* C16 as stated: on a String with Integer start, end and step, step < 0:
\* when start < end the loop never exits and the call is never over; when
\* start >= end the body never runs and the result is the empty String
C16_NegativeStepNeverExits ==
    (SliceOfString /\ StepOf < 0) =>
        IF StartOf < call.to
        THEN call.pc = "loop"
        ELSE /\ call.result = <<>>
             /\ call.pc = "done" => ret = Returns(String(<<>>))

\* C16 amended: when start < end the loop condition stays true, but the
\* walk is bounded: each round extracts the character at i, and the call
\* ends with a panic, returning no Value, in the first round in which i is
\* no index of a character of the subject, after at most start + 1 rounds;
\* when start >= end the body never runs and the result is the empty String
C16_NegativeStepFaults ==
    (SliceOfString /\ StepOf < 0) =>
        IF StartOf < call.to
        THEN /\ call.i < call.to
             /\ call.i = StartOf + Len(call.result) * StepOf
             /\ Len(call.result) <= Len(call.self.str)
             /\ StartOf >= 0 => Len(call.result) <= StartOf + 1
             /\ call.pc = "done" =>
                   /\ ret = Fault("called Option::unwrap() on a None value")
                   /\ nth(call.self.str, call.i) = None
        ELSE /\ call.result = <<>>
             /\ call.pc = "done" => ret = Returns(String(<<>>))

C16_Witness ==
    /\ SliceOfString
    /\ call.start = Integer(1)
    /\ call.end = Integer(3)
    /\ call.step = Integer(-1)
    /\ call.pc = "done"
    /\ call.result = <<"b", "a">>
    /\ ret.kind = "Panic"

====
